---- MODULE Spec2Model ----
(***************************************************************************)
(* Model of the sales-warehouse ETL: src/etl/etl.py (extract, the three    *)
(* transforms, load and the entry point), src/run_query.py and             *)
(* src/view_db.py.                                                         *)
(*                                                                         *)
(* A data-frame is a sequence of rows (records).  A cell that may be       *)
(* missing is a tuple: <<>> is NaN/None, <<v>> is the value v.  An         *)
(* OrderDate cell is a record whose kind says what the cell holds: a       *)
(* missing CSV value, a date-parseable string, an unparseable string, a    *)
(* Timestamp or NaT.  Price and Cost are counted in cents.                 *)
(***************************************************************************)
EXTENDS Integers, Sequences, FiniteSets, TLC

VARIABLES
    proc,         \* the script the operator started last: etl, run_query, view_db
    pc,           \* position inside that script; "exit" once its process ended
    input,        \* the orders frame as read_csv returned it (history)
    orders,       \* etl: the orders frame (transform_date rewrites its OrderDate)
    products,     \* etl: the products frame
    dim_date,     \* etl: result of transform_date
    dim_product,  \* etl: result of transform_product
    fact_sales,   \* etl: result of transform_fact_sales
    conn,         \* the sqlite3 connection of the running script
    db,           \* warehouse.db: the three tables
    todo,         \* view_db: table names still to preview
    err,          \* etl: the except block printed "Error: ..."
    exit_status,  \* exit status of the last script that ended
    failed_step,  \* history: the step of the etl run that raised
    pre,          \* history: db when the current etl run started
    prev,         \* history: outcome and inputs of the previous etl run
    runs          \* number of etl runs started

vars == <<proc, pc, input, orders, products, dim_date, dim_product, fact_sales,
          conn, db, todo, err, exit_status, failed_step, pre, prev, runs>>

MaxOrders == 2   \* rows in an orders file
MaxRuns == 2     \* etl runs against the same store

-----------------------------------------------------------------------------
(* Cells *)

Null == <<>>
Val(v) == <<v>>
IsNull(c) == c = Null

\* OrderDate cells
NoDate == [kind |-> "null", y |-> 0, m |-> 0, d |-> 0, tod |-> 0]
Junk == [kind |-> "junk", y |-> 0, m |-> 0, d |-> 0, tod |-> 0]
NaT == [kind |-> "NaT", y |-> 0, m |-> 0, d |-> 0, tod |-> 0]
Text(y, m, d, tod) == [kind |-> "text", y |-> y, m |-> m, d |-> d, tod |-> tod]

\* pandas isna() on an OrderDate cell
DateIsNull(c) == c.kind \in {"null", "NaT"}

\* pd.to_datetime on one cell (a junk cell makes the whole call raise):
\* the time of day is kept
ToDatetime(c) ==
    IF c.kind = "text" THEN [c EXCEPT !.kind = "ts"]
    ELSE IF c.kind = "null" THEN NaT
    ELSE c

ToDatetimeRaises(col) == \E i \in 1..Len(col) : col[i].kind = "junk"

-----------------------------------------------------------------------------
(* DateKey: strftime("%Y%m%d") then astype(int) *)

\* n written with w decimal digits, zero padded
Pad(n, w) == [i \in 1..w |-> (n \div (10 ^ (w - i))) % 10]

\* n written without leading zeros, as "%-m" and "%-d" write it
RECURSIVE Digits(_)
Digits(n) == IF n < 10 THEN <<n>> ELSE Append(Digits(n \div 10), n % 10)

\* the format "%Y%-m%-d": month and day not padded
StrftimeNoPad(ts) == Pad(ts.y, 4) \o Digits(ts.m) \o Digits(ts.d)

\* .dt.strftime("%Y%m%d") of a Timestamp, as its sequence of digits
Strftime(ts) == Pad(ts.y, 4) \o Pad(ts.m, 2) \o Pad(ts.d, 2)

\* int() of a string of digits
RECURSIVE AsInt(_)
AsInt(s) ==
    IF s = <<>> THEN 0
    ELSE AsInt(SubSeq(s, 1, Len(s) - 1)) * 10 + s[Len(s)]

DateKeyOf(ts) == AsInt(Strftime(ts))

-----------------------------------------------------------------------------
(* transform_date *)

\* Series.drop_duplicates(): the first occurrence of each value, in order
RECURSIVE DropDuplicates(_)
DropDuplicates(s) ==
    IF s = <<>> THEN <<>>
    ELSE LET init == DropDuplicates(SubSeq(s, 1, Len(s) - 1))
             x == s[Len(s)]
         IN  IF \E i \in 1..Len(init) : init[i] = x THEN init ELSE Append(init, x)

OrderDateColumn(frame) == [i \in 1..Len(frame) |-> frame[i].OrderDate]

\* line 23: orders["OrderDate"] = pd.to_datetime(orders["OrderDate"])
ConvertOrderDate(frame) ==
    [i \in 1..Len(frame) |-> [frame[i] EXCEPT !.OrderDate = ToDatetime(@)]]

DimDateRow(ts) ==
    [DateKey |-> DateKeyOf(ts), OrderDate |-> ts,
     Year |-> ts.y, Month |-> ts.m, Day |-> ts.d]

\* The call on a frame: whether it raises, the rows it returns, and the frame
\* it leaves behind (the caller's orders, rewritten in place by line 23).
transform_date(frame) ==
    IF ToDatetimeRaises(OrderDateColumn(frame))
    THEN [st |-> "raised", rows |-> <<>>, frame |-> frame]
    ELSE LET conv == ConvertOrderDate(frame)
             dates == DropDuplicates(OrderDateColumn(conv))
         IN  IF \E i \in 1..Len(dates) : dates[i].kind = "NaT"
             THEN [st |-> "raised", rows |-> <<>>, frame |-> conv]
             ELSE [st |-> "ok",
                   rows |-> [i \in 1..Len(dates) |-> DimDateRow(dates[i])],
                   frame |-> conv]

-----------------------------------------------------------------------------
(* transform_fact_sales *)

\* a dropna subset that leaves OrderID out
CriticalNoOrderID == {"CustomerID", "ProductID", "OrderDate", "Quantity", "Price"}

\* line 50: the subset of dropna
Critical == {"OrderID", "CustomerID", "ProductID", "OrderDate", "Quantity", "Price"}

HasNull(r) ==
    \/ "OrderID" \in Critical /\ IsNull(r.OrderID)
    \/ "CustomerID" \in Critical /\ IsNull(r.CustomerID)
    \/ "ProductID" \in Critical /\ IsNull(r.ProductID)
    \/ "OrderDate" \in Critical /\ DateIsNull(r.OrderDate)
    \/ "Quantity" \in Critical /\ IsNull(r.Quantity)
    \/ "Price" \in Critical /\ IsNull(r.Price)

NotNull(r) == ~HasNull(r)

\* a comparison with NaN is False
Gt0(c) == ~IsNull(c) /\ c[1] > 0
Ge0(c) == ~IsNull(c) /\ c[1] >= 0

\* the filter with >= in place of >
PositiveOrZero(r) == Ge0(r.Quantity) /\ Ge0(r.Price)

\* line 53: (Quantity > 0) & (Price > 0)
Positive(r) == Gt0(r.Quantity) /\ Gt0(r.Price)

\* line 56: Quantity * Price, NaN if either is NaN
Times(a, b) == IF IsNull(a) \/ IsNull(b) THEN Null ELSE Val(a[1] * b[1])

FactRow(r) ==
    [OrderID |-> r.OrderID, CustomerID |-> r.CustomerID, ProductID |-> r.ProductID,
     DateKey |-> DateKeyOf(ToDatetime(r.OrderDate)),
     Quantity |-> r.Quantity, Price |-> r.Price,
     Revenue |-> Times(r.Quantity, r.Price)]

transform_fact_sales(frame) ==
    LET kept == SelectSeq(SelectSeq(frame, NotNull), Positive)
    IN  IF ToDatetimeRaises(OrderDateColumn(kept))
        THEN [st |-> "raised", rows |-> <<>>]
        ELSE [st |-> "ok", rows |-> [i \in 1..Len(kept) |-> FactRow(kept[i])]]

-----------------------------------------------------------------------------
(* transform_product *)

ProductColumns == {"ProductID", "ProductName", "Category", "Cost"}

\* A products frame is [cols, rows]; selecting a column the file lacks raises
transform_product(frame) ==
    IF ~(ProductColumns \subseteq frame.cols)
    THEN [st |-> "raised", rows |-> <<>>]
    ELSE [st |-> "ok",
          rows |-> [i \in 1..Len(frame.rows) |->
                       [c \in ProductColumns |-> frame.rows[i][c]]]]

-----------------------------------------------------------------------------
(* Inputs *)

DayA == Text(2024, 3, 15, 0)
DayALate == Text(2024, 3, 15, 1030)
DayB == Text(1999, 11, 5, 0)

DateCells == {NoDate, Junk, DayA, DayALate, DayB}

GoodRow(date) ==
    [OrderID |-> Val(1), CustomerID |-> Val(9), ProductID |-> Val(5),
     OrderDate |-> date, Quantity |-> Val(2), Price |-> Val(1999)]

\* a good row, and the same row with one field missing or not positive
RowsOn(date) ==
    LET g == GoodRow(date)
    IN  {g,
         [g EXCEPT !.OrderID = Null], [g EXCEPT !.CustomerID = Null],
         [g EXCEPT !.ProductID = Null],
         [g EXCEPT !.Quantity = Null], [g EXCEPT !.Quantity = Val(0)],
         [g EXCEPT !.Quantity = Val(-1)],
         [g EXCEPT !.Price = Null], [g EXCEPT !.Price = Val(0)]}

OrderRows == UNION {RowsOn(date) : date \in DateCells}

SeqsUpTo(S, n) == UNION {[1..k -> S] : k \in 0..n}

AllOrders == SeqsUpTo(OrderRows, MaxOrders)

\* the orders files the etl runs read: rows the filters drop, two dates, a
\* missing date, an unparseable date
OrderFiles ==
    {<<GoodRow(DayA), [GoodRow(DayA) EXCEPT !.Quantity = Val(0)]>>,
     <<GoodRow(DayB), GoodRow(DayA), [GoodRow(DayB) EXCEPT !.Price = Null]>>,
     <<GoodRow(DayA), GoodRow(NoDate)>>,
     <<GoodRow(Junk)>>}

AllColumns == ProductColumns \cup {"Supplier"}

Cola ==
    [ProductID |-> 5, ProductName |-> "Cola", Category |-> "Beverages",
     Cost |-> 120, Supplier |-> "Acme"]
Chips ==
    [ProductID |-> 6, ProductName |-> "Chips", Category |-> "Snacks",
     Cost |-> 80, Supplier |-> "Acme"]

Without(r, col) == [c \in (DOMAIN r) \ {col} |-> r[c]]

ProductFiles ==
    {[cols |-> AllColumns, rows |-> <<Cola>>],
     [cols |-> AllColumns, rows |-> <<Cola, Chips>>],
     [cols |-> AllColumns \ {"Cost"}, rows |-> <<Without(Cola, "Cost")>>]}

-----------------------------------------------------------------------------
(* The store *)

TableNames == <<"DimDate", "DimProduct", "FactSales">>

Absent == [exists |-> FALSE, rows |-> <<>>]
Empty == [exists |-> TRUE, rows |-> <<>>]

\* to_sql(..., if_exists="append")
AppendTable(old, rows) == [exists |-> TRUE, rows |-> old.rows \o rows]

\* to_sql(..., if_exists="replace") that returns: the old table is dropped and
\* a new one holds the frame's rows
ReplaceTable(old, rows) == [exists |-> TRUE, rows |-> rows]

\* to_sql(..., if_exists="replace") that raises: before the drop, after the
\* drop, or after the create with the insert rolled back
FailedReplace(old) == {old, Absent, Empty}

NoResult == [st |-> "none", rows |-> <<>>]
NoProducts == [cols |-> {}, rows |-> <<>>]
NoPrev == [ok |-> FALSE, orders |-> <<>>, products |-> NoProducts]

-----------------------------------------------------------------------------
(* The entry point of etl.py, lines 83-115 *)

InitStore == [DimDate |-> Absent, DimProduct |-> Absent, FactSales |-> Absent]

Init ==
    /\ proc = "none"
    /\ pc = "idle"
    /\ input = <<>>
    /\ orders = <<>>
    /\ products = NoProducts
    /\ dim_date = NoResult
    /\ dim_product = NoResult
    /\ fact_sales = NoResult
    /\ conn = "none"
    /\ db = InitStore
    /\ todo = <<>>
    /\ err = FALSE
    /\ exit_status = -1
    /\ failed_step = "none"
    /\ pre = InitStore
    /\ prev = NoPrev
    /\ runs = 0

\* the operator starts `python etl/etl.py`
StartEtl ==
    /\ pc \in {"idle", "exit"}
    /\ runs < MaxRuns
    /\ proc' = "etl"
    /\ pc' = "extract"
    /\ runs' = runs + 1
    /\ pre' = db
    /\ prev' = [ok |-> (runs > 0 /\ failed_step = "none"),
                orders |-> input, products |-> products]
    /\ input' = <<>>
    /\ orders' = <<>>
    /\ products' = NoProducts
    /\ dim_date' = NoResult
    /\ dim_product' = NoResult
    /\ fact_sales' = NoResult
    /\ conn' = "none"
    /\ err' = FALSE
    /\ exit_status' = -1
    /\ failed_step' = "none"
    /\ todo' = <<>>
    /\ UNCHANGED db

\* a step of the try block raised: control goes to the except clause
Raise(step) ==
    /\ pc' = "except"
    /\ failed_step' = step

\* line 86: extract reads the two files, or raises (a file is missing)
Extract ==
    /\ proc = "etl" /\ pc = "extract"
    /\ \/ /\ \E o \in OrderFiles, p \in ProductFiles :
                /\ input' = o
                /\ orders' = o
                /\ products' = p
          /\ pc' = "transform_date"
          /\ UNCHANGED failed_step
       \/ /\ Raise("extract")
          /\ UNCHANGED <<input, orders, products>>
    /\ UNCHANGED <<proc, dim_date, dim_product, fact_sales, conn, db, todo, err,
                   exit_status, pre, prev, runs>>

\* line 97
TransformDate ==
    /\ proc = "etl" /\ pc = "transform_date"
    /\ LET res == transform_date(orders)
       IN  /\ orders' = res.frame
           /\ IF res.st = "ok"
              THEN /\ dim_date' = [st |-> "ok", rows |-> res.rows]
                   /\ pc' = "transform_product"
                   /\ UNCHANGED failed_step
              ELSE /\ Raise("transform_date")
                   /\ UNCHANGED dim_date
    /\ UNCHANGED <<proc, input, products, dim_product, fact_sales, conn, db, todo,
                   err, exit_status, pre, prev, runs>>

\* line 101
TransformProduct ==
    /\ proc = "etl" /\ pc = "transform_product"
    /\ LET res == transform_product(products)
       IN  IF res.st = "ok"
           THEN /\ dim_product' = res
                /\ pc' = "transform_fact_sales"
                /\ UNCHANGED failed_step
           ELSE /\ Raise("transform_product")
                /\ UNCHANGED dim_product
    /\ UNCHANGED <<proc, input, orders, products, dim_date, fact_sales, conn, db,
                   todo, err, exit_status, pre, prev, runs>>

\* line 105
TransformFactSales ==
    /\ proc = "etl" /\ pc = "transform_fact_sales"
    /\ LET res == transform_fact_sales(orders)
       IN  IF res.st = "ok"
           THEN /\ fact_sales' = res
                /\ pc' = "load_connect"
                /\ UNCHANGED failed_step
           ELSE /\ Raise("transform_fact_sales")
                /\ UNCHANGED fact_sales
    /\ UNCHANGED <<proc, input, orders, products, dim_date, dim_product, conn, db,
                   todo, err, exit_status, pre, prev, runs>>

\* load, line 71: sqlite3.connect opens (or creates) the store, or raises
LoadConnect ==
    /\ proc = "etl" /\ pc = "load_connect"
    /\ \/ /\ conn' = "open"
          /\ pc' = "load_DimDate"
          /\ UNCHANGED failed_step
       \/ /\ Raise("connect")
          /\ UNCHANGED conn
    /\ UNCHANGED <<proc, input, orders, products, dim_date, dim_product, fact_sales,
                   db, todo, err, exit_status, pre, prev, runs>>

\* load, lines 74-76: one to_sql call; it replaces the table and returns, or
\* raises and leaves load with line 79 not run
WriteTable(name, frame, next) ==
    /\ proc = "etl" /\ pc = "load_" \o name
    /\ \/ /\ db' = [db EXCEPT ![name] = ReplaceTable(@, frame.rows)]
          /\ pc' = next
          /\ UNCHANGED failed_step
       \/ /\ \E t \in FailedReplace(db[name]) : db' = [db EXCEPT ![name] = t]
          /\ Raise(name)
    /\ UNCHANGED <<proc, input, orders, products, dim_date, dim_product, fact_sales,
                   conn, todo, err, exit_status, pre, prev, runs>>

LoadDimDate == WriteTable("DimDate", dim_date, "load_DimProduct")
LoadDimProduct == WriteTable("DimProduct", dim_product, "load_FactSales")
LoadFactSales == WriteTable("FactSales", fact_sales, "load_close")

\* load, lines 79-80
LoadClose ==
    /\ proc = "etl" /\ pc = "load_close"
    /\ conn' = "closed"
    /\ pc' = "success"
    /\ UNCHANGED <<proc, input, orders, products, dim_date, dim_product, fact_sales,
                   db, todo, err, exit_status, failed_step, pre, prev, runs>>

\* line 112, then the script runs off its end
EtlSuccess ==
    /\ proc = "etl" /\ pc = "success"
    /\ pc' = "exit"
    /\ exit_status' = 0
    /\ UNCHANGED <<proc, input, orders, products, dim_date, dim_product, fact_sales,
                   conn, db, todo, err, failed_step, pre, prev, runs>>

\* lines 114-115: print the error, then the script runs off its end
EtlExcept ==
    /\ proc = "etl" /\ pc = "except"
    /\ err' = TRUE
    /\ pc' = "exit"
    /\ exit_status' = 0
    /\ UNCHANGED <<proc, input, orders, products, dim_date, dim_product, fact_sales,
                   conn, db, todo, failed_step, pre, prev, runs>>

-----------------------------------------------------------------------------
(* run_query.py and view_db.py: module bodies with no exception handler *)

ScriptVars ==
    <<input, orders, products, dim_date, dim_product, fact_sales, db, err,
      failed_step, pre, prev, runs>>

StartScript(name) ==
    /\ pc \in {"idle", "exit"}
    /\ proc' = name
    /\ pc' = "connect"
    /\ conn' = "none"
    /\ todo' = <<>>
    /\ exit_status' = -1
    /\ UNCHANGED ScriptVars

\* an uncaught exception: traceback, exit status 1, nothing after it runs
Crash ==
    /\ pc' = "exit"
    /\ exit_status' = 1
    /\ UNCHANGED proc

\* the script ran off its end
Finished ==
    /\ pc' = "exit"
    /\ exit_status' = 0
    /\ UNCHANGED proc

StartRunQuery == StartScript("run_query")

\* run_query.py line 5
RqConnect ==
    /\ proc = "run_query" /\ pc = "connect"
    /\ \/ conn' = "open" /\ pc' = "open_query" /\ UNCHANGED <<proc, exit_status>>
       \/ Crash /\ UNCHANGED conn
    /\ UNCHANGED todo
    /\ UNCHANGED ScriptVars

\* run_query.py lines 8-9: sql/queries.sql is read, or is missing
RqOpenQuery ==
    /\ proc = "run_query" /\ pc = "open_query"
    /\ \/ pc' = "read_sql" /\ UNCHANGED <<proc, exit_status>>
       \/ Crash
    /\ UNCHANGED <<conn, todo>>
    /\ UNCHANGED ScriptVars

\* run_query.py line 15: the query runs, or raises (a table it names is
\* absent, or the text is no query)
RqReadSql ==
    /\ proc = "run_query" /\ pc = "read_sql"
    /\ \/ pc' = "summary" /\ UNCHANGED <<proc, exit_status>>
       \/ Crash
    /\ UNCHANGED <<conn, todo>>
    /\ UNCHANGED ScriptVars

\* run_query.py lines 17-22: results['TotalRevenue'] raises if the query
\* returned no such column
RqSummary ==
    /\ proc = "run_query" /\ pc = "summary"
    /\ \/ pc' = "close" /\ UNCHANGED <<proc, exit_status>>
       \/ Crash
    /\ UNCHANGED <<conn, todo>>
    /\ UNCHANGED ScriptVars

\* run_query.py line 24
RqClose ==
    /\ proc = "run_query" /\ pc = "close"
    /\ conn' = "closed"
    /\ Finished
    /\ UNCHANGED todo
    /\ UNCHANGED ScriptVars

StartViewDb == StartScript("view_db")

\* view_db.py line 5
VdConnect ==
    /\ proc = "view_db" /\ pc = "connect"
    /\ \/ conn' = "open" /\ pc' = "list_tables" /\ UNCHANGED <<proc, exit_status>>
       \/ Crash /\ UNCHANGED conn
    /\ UNCHANGED todo
    /\ UNCHANGED ScriptVars

\* view_db.py line 9: the tables of data/etl_database.db, a store the etl does
\* not write: any number of them
VdListTables ==
    /\ proc = "view_db" /\ pc = "list_tables"
    /\ \/ /\ \E k \in 0..Len(TableNames) : todo' = SubSeq(TableNames, 1, k)
          /\ pc' = "preview"
          /\ UNCHANGED <<proc, exit_status>>
       \/ Crash /\ UNCHANGED todo
    /\ UNCHANGED conn
    /\ UNCHANGED ScriptVars

\* view_db.py lines 13-18: one turn of the loop
VdPreview ==
    /\ proc = "view_db" /\ pc = "preview"
    /\ todo # <<>>
    /\ \/ todo' = Tail(todo) /\ UNCHANGED <<pc, proc, exit_status>>
       \/ Crash /\ UNCHANGED todo
    /\ UNCHANGED conn
    /\ UNCHANGED ScriptVars

\* view_db.py line 20
VdClose ==
    /\ proc = "view_db" /\ pc = "preview"
    /\ todo = <<>>
    /\ conn' = "closed"
    /\ Finished
    /\ UNCHANGED todo
    /\ UNCHANGED ScriptVars

Next ==
    \/ StartEtl
    \/ Extract
    \/ TransformDate
    \/ TransformProduct
    \/ TransformFactSales
    \/ LoadConnect
    \/ LoadDimDate
    \/ LoadDimProduct
    \/ LoadFactSales
    \/ LoadClose
    \/ EtlSuccess
    \/ EtlExcept
    \/ StartRunQuery
    \/ RqConnect
    \/ RqOpenQuery
    \/ RqReadSql
    \/ RqSummary
    \/ RqClose
    \/ StartViewDb
    \/ VdConnect
    \/ VdListTables
    \/ VdPreview
    \/ VdClose

Spec == Init /\ [][Next]_vars

-----------------------------------------------------------------------------
(* The transforms called on any orders frame *)

FnInit ==
    /\ proc = "functions"
    /\ pc = "idle"
    /\ input \in AllOrders
    /\ orders = input
    /\ products = NoProducts
    /\ dim_date = NoResult
    /\ dim_product = NoResult
    /\ fact_sales = NoResult
    /\ conn = "none"
    /\ db = InitStore
    /\ todo = <<>>
    /\ err = FALSE
    /\ exit_status = -1
    /\ failed_step = "none"
    /\ pre = InitStore
    /\ prev = NoPrev
    /\ runs = 0

FnVars ==
    <<proc, pc, input, products, dim_product, conn, db, todo, err, exit_status,
      failed_step, pre, prev, runs>>

CallTransformDate ==
    /\ proc = "functions"
    /\ dim_date.st = "none"
    /\ LET res == transform_date(orders)
       IN  /\ orders' = res.frame
           /\ dim_date' = [st |-> res.st, rows |-> res.rows]
    /\ UNCHANGED fact_sales
    /\ UNCHANGED FnVars

CallTransformFactSales ==
    /\ proc = "functions"
    /\ fact_sales.st = "none"
    /\ fact_sales' = transform_fact_sales(orders)
    /\ UNCHANGED <<orders, dim_date>>
    /\ UNCHANGED FnVars

FnNext == CallTransformDate \/ CallTransformFactSales

FnSpec == FnInit /\ [][FnNext]_vars

-----------------------------------------------------------------------------
(* Properties *)

\* the calendar date of an OrderDate cell, as the number YYYYMMDD
Ymd(c) == c.y * 10000 + c.m * 100 + c.d

HasDate(c) == c.kind \in {"text", "ts"}

\* a row the fact table must not hold: a missing critical field, or a
\* quantity or price that is not positive
Excluded(r) ==
    \/ IsNull(r.OrderID) \/ IsNull(r.CustomerID) \/ IsNull(r.ProductID)
    \/ r.OrderDate.kind \in {"null", "NaT"}
    \/ IsNull(r.Quantity) \/ IsNull(r.Price)
    \/ r.Quantity[1] <= 0 \/ r.Price[1] <= 0

Retained(r) == ~Excluded(r)

DimRows == dim_date.rows
FactRows == fact_sales.rows

\* C1: when transform_date and transform_fact_sales both succeed on an orders
\* frame, every DateKey of the FactSales result has exactly one row with that
\* DateKey in the DimDate result, also when orders of one calendar date differ
\* in their time of day.
C1_FactDateKeyHasOneDimDateRow ==
    (proc = "functions" /\ dim_date.st = "ok" /\ fact_sales.st = "ok") =>
        \A i \in 1..Len(FactRows) :
            Cardinality({j \in 1..Len(DimRows) :
                            DimRows[j].DateKey = FactRows[i].DateKey}) = 1

\* C2: every row transform_fact_sales returns has Quantity > 0, Price > 0 and
\* Revenue = Quantity x Price of that row.
C2_FactRowsPositiveWithRevenue ==
    (proc = "functions" /\ fact_sales.st = "ok") =>
        \A i \in 1..Len(FactRows) :
            LET r == FactRows[i]
            IN  /\ ~IsNull(r.Quantity) /\ r.Quantity[1] > 0
                /\ ~IsNull(r.Price) /\ r.Price[1] > 0
                /\ r.Revenue = <<r.Quantity[1] * r.Price[1]>>

\* C2 witness: a frame with a dropped row and a retained row went through
C2_Witness ==
    /\ proc = "functions" /\ fact_sales.st = "ok"
    /\ Len(FactRows) = 1 /\ Len(input) = 2
    /\ \E i \in 1..Len(input) : ~IsNull(input[i].Quantity) /\ input[i].Quantity[1] = 0

\* C3: the DateKey derived for a parseable OrderDate is Year*10000 + Month*100
\* + Day of that date, in the rows of transform_date and in the rows of
\* transform_fact_sales alike.
C3_DateKeyIsYearMonthDay ==
    /\ (proc = "functions" /\ dim_date.st = "ok") =>
           /\ \A j \in 1..Len(DimRows) :
                 /\ DimRows[j].DateKey = Ymd(DimRows[j].OrderDate)
                 /\ DimRows[j].DateKey =
                        DimRows[j].Year * 10000 + DimRows[j].Month * 100 + DimRows[j].Day
           /\ \A i \in 1..Len(input) :
                 HasDate(input[i].OrderDate) =>
                     \E j \in 1..Len(DimRows) :
                         /\ DimRows[j].DateKey = Ymd(input[i].OrderDate)
                         /\ DimRows[j].Year = input[i].OrderDate.y
                         /\ DimRows[j].Month = input[i].OrderDate.m
                         /\ DimRows[j].Day = input[i].OrderDate.d
    /\ (proc = "functions" /\ fact_sales.st = "ok") =>
           LET kept == SelectSeq(input, Retained)
           IN  /\ Len(FactRows) = Len(kept)
               /\ \A i \in 1..Len(FactRows) :
                     FactRows[i].DateKey = Ymd(kept[i].OrderDate)

\* C3 witness: both transforms returned rows for a date with a one-digit month
\* and a date with a one-digit day
C3_Witness ==
    /\ proc = "functions" /\ dim_date.st = "ok" /\ fact_sales.st = "ok"
    /\ \E i, j \in 1..Len(FactRows) :
          FactRows[i].DateKey = 20240315 /\ FactRows[j].DateKey = 19991105
    /\ \E i, j \in 1..Len(DimRows) :
          DimRows[i].Month = 3 /\ DimRows[j].Day = 5

\* the calendar dates present in a frame
CalendarDates(frame) ==
    {Ymd(frame[i].OrderDate) : i \in {k \in 1..Len(frame) : HasDate(frame[k].OrderDate)}}

\* C4: transform_date returns exactly one row per distinct calendar date of
\* the input, the time of day discarded: no two DimDate rows share a DateKey.
C4_OneDimDateRowPerCalendarDate ==
    (proc = "functions" /\ dim_date.st = "ok") =>
        /\ \A i, j \in 1..Len(DimRows) :
              DimRows[i].DateKey = DimRows[j].DateKey => i = j
        /\ Len(DimRows) = Cardinality(CalendarDates(input))

\* C5: transform_fact_sales returns at most as many rows as it was given; the
\* difference is the number of rows with a null critical field or a
\* non-positive Quantity or Price, each counted once; every other row is
\* retained exactly once.
C5_RowCountAndExclusions ==
    (proc = "functions" /\ fact_sales.st = "ok") =>
        LET kept == SelectSeq(input, Retained)
        IN  /\ Len(FactRows) <= Len(input)
            /\ Len(input) - Len(FactRows) =
                   Cardinality({i \in 1..Len(input) : Excluded(input[i])})
            /\ Len(FactRows) = Len(kept)
            /\ \A i \in 1..Len(kept) :
                  /\ FactRows[i].OrderID = kept[i].OrderID
                  /\ FactRows[i].CustomerID = kept[i].CustomerID
                  /\ FactRows[i].ProductID = kept[i].ProductID
                  /\ FactRows[i].Quantity = kept[i].Quantity
                  /\ FactRows[i].Price = kept[i].Price

\* C5 witness: of two rows, the one with a missing OrderID was dropped and the
\* other retained
C5_Witness ==
    /\ proc = "functions" /\ fact_sales.st = "ok"
    /\ Len(input) = 2 /\ Len(FactRows) = 1
    /\ IsNull(input[1].OrderID)
    /\ Retained(input[2])

\* the last etl run has ended
EtlEnded == proc = "etl" /\ pc = "exit"

\* C6: rows with null critical fields (a null OrderDate too) or non-positive
\* Quantity or Price never make the run fail: a transform of the orders raises
\* only on an input error, an OrderDate that does not parse.
C6_DataQualityRowsNeverFail ==
    (proc = "etl" /\ failed_step \in {"transform_date", "transform_fact_sales"}) =>
        \E i \in 1..Len(input) : input[i].OrderDate.kind = "junk"

\* C7: after a successful run each of the three tables holds exactly the rows
\* that run produced, and a successful run on the inputs of the successful run
\* before it leaves the three tables as they were.
C7_TablesHoldLastRun ==
    (EtlEnded /\ failed_step = "none") =>
        /\ db.DimDate = [exists |-> TRUE, rows |-> dim_date.rows]
        /\ db.DimProduct = [exists |-> TRUE, rows |-> dim_product.rows]
        /\ db.FactSales = [exists |-> TRUE, rows |-> fact_sales.rows]
        /\ (prev.ok /\ prev.orders = input /\ prev.products = products) => db = pre

\* C7 witness: a second successful run, on other inputs, over the tables of a
\* first successful run
C7_Witness ==
    /\ EtlEnded /\ failed_step = "none"
    /\ prev.ok
    /\ pre.DimDate.rows # <<>> /\ pre.DimDate # db.DimDate
    /\ pre.FactSales.rows # <<>> /\ pre.FactSales # db.FactSales
    /\ pre.DimProduct # db.DimProduct

\* C8: the connection a write phase or a query phase opened is closed on every
\* exit path of the phase: once load has raised or returned, and once
\* run_query or view_db has ended, the connection is not open.
C8_ConnectionClosedOnEveryExit ==
    pc \in {"except", "success", "exit"} => conn # "open"

\* C9: the exit status of the entry point is the success status exactly when
\* no step raised.
C9_ExitStatusReflectsOutcome ==
    EtlEnded => (exit_status = 0 <=> failed_step = "none")

\* the rows the run was writing into a table
NewTable(name) ==
    [exists |-> TRUE,
     rows |-> IF name = "DimDate" THEN dim_date.rows
              ELSE IF name = "DimProduct" THEN dim_product.rows
              ELSE fact_sales.rows]

\* C10: after a failed run every table the failed step did not write has its
\* pre-run content, and the table being written at the failure is wholly old
\* or wholly new.
C10_FailedRunLeavesStoreAsBefore ==
    (EtlEnded /\ failed_step # "none") =>
        \A k \in 1..Len(TableNames) :
            LET name == TableNames[k]
            IN  IF name = failed_step
                THEN db[name] \in {pre[name], NewTable(name)}
                ELSE db[name] = pre[name]

====
